---- MODULE Spec2Model ----
(***************************************************************************)
(* Line-of-sight analyzer (App.tsx): the application state held by the App *)
(* component, its event handlers, and the analysis functions they call     *)
(* (getCurvatureHeight, fetchTerrainProfile, calculateLineOfSight,         *)
(* calculateRadioLink and the constraint segmenter inside handleAnalyze).  *)
(*                                                                         *)
(* JavaScript numbers are modelled as exact extended rationals <<n, d>>:   *)
(* d > 0 is the finite value n/d in lowest terms, <<1, 0>> is +Infinity,   *)
(* <<-1, 0>> is -Infinity and <<0, 0>> is NaN.  Rounding error of the      *)
(* binary floating point format and the sign of zero are not modelled.     *)
(* A nullable value is a sequence of length 0 (null) or 1 (the value).     *)
(***************************************************************************)
EXTENDS Integers, Sequences, FiniteSets, TLC

VARIABLES points, antennaHeights, radioSpecs, useRadioSpecs, useCurvature,
          terrainProfile, losResult, radioLinkResult, constraintSegments,
          isLoading, error, pending

vars == <<points, antennaHeights, radioSpecs, useRadioSpecs, useCurvature,
          terrainProfile, losResult, radioLinkResult, constraintSegments,
          isLoading, error, pending>>

(***************************************************************************)
(* Nullable values.                                                        *)
(***************************************************************************)
None == <<>>

Some(v) == <<v>>

(***************************************************************************)
(* Numbers.                                                                *)
(***************************************************************************)
Abs(n) == IF n < 0 THEN -n ELSE n

Sign(n) == IF n < 0 THEN -1 ELSE IF n > 0 THEN 1 ELSE 0

RECURSIVE GCD(_, _)
GCD(a, b) == IF b = 0 THEN a ELSE GCD(b, a % b)

\* the value n/d, in lowest terms with a positive denominator; x/0 is an
\* infinity of the sign of x, and 0/0 is NaN
Norm(n, d) ==
    IF d = 0 THEN <<Sign(n), 0>>
    ELSE LET g == GCD(Abs(n), Abs(d))
         IN  <<Sign(d) * (n \div g), Abs(d) \div g>>

Num(n) == <<n, 1>>

Zero == Num(0)

NaN == <<0, 0>>

PosInf == <<1, 0>>

NegInf == <<-1, 0>>

IsNaN(x) == x = NaN

IsFinite(x) == x[2] # 0

Neg(x) == <<-x[1], x[2]>>

Add(x, y) ==
    IF x[2] = 0 /\ y[2] = 0 THEN (IF x = y THEN x ELSE NaN)
    ELSE IF x[2] = 0 THEN x
    ELSE IF y[2] = 0 THEN y
    ELSE LET g == GCD(x[2], y[2])
         IN  Norm(x[1] * (y[2] \div g) + y[1] * (x[2] \div g), (x[2] \div g) * y[2])

Sub(x, y) == Add(x, Neg(y))

\* finite factors are cross-reduced before multiplying, which keeps the
\* intermediate products small
Mul(x, y) ==
    IF x[2] = 0 \/ y[2] = 0 THEN Norm(x[1] * y[1], 0)
    ELSE LET g1 == GCD(Abs(x[1]), y[2])
             g2 == GCD(Abs(y[1]), x[2])
         IN  Norm((x[1] \div g1) * (y[1] \div g2), (x[2] \div g2) * (y[2] \div g1))

Recip(x) == IF x[1] < 0 THEN <<-x[2], -x[1]>> ELSE <<x[2], x[1]>>

Div(x, y) ==
    IF x[2] = 0 /\ y[2] = 0 THEN NaN
    ELSE IF y[2] = 0 THEN (IF IsNaN(y) THEN NaN ELSE Zero)
    ELSE IF x[2] = 0 THEN (IF IsNaN(x) THEN NaN
                           ELSE IF y[1] < 0 THEN Neg(x) ELSE x)
    ELSE IF y[1] = 0 THEN Norm(x[1], 0)
    ELSE Mul(x, Recip(y))

\* x < y; every comparison with NaN is false
Less(x, y) ==
    IF IsNaN(x) \/ IsNaN(y) THEN FALSE
    ELSE IF x[2] = 0 /\ y[2] = 0 THEN x[1] < y[1]
    ELSE IF x[2] = 0 THEN x[1] < 0
    ELSE IF y[2] = 0 THEN y[1] > 0
    ELSE LET g == GCD(x[2], y[2])
         IN  x[1] * (y[2] \div g) < y[1] * (x[2] \div g)

\* x > y
Greater(x, y) == Less(y, x)

\* x <= y
LessEq(x, y) == Less(x, y) \/ (~IsNaN(x) /\ x = y)

\* Number.prototype.toFixed(2) read back as a number: the nearest multiple of
\* 1/100, a tie going to the larger magnitude; Infinity and NaN print and
\* parse as themselves
ToFixed2(x) ==
    IF ~IsFinite(x) THEN x
    ELSE Norm(Sign(x[1]) * ((Abs(x[1]) * 200 + x[2]) \div (2 * x[2])), 100)

\* the decimal logarithms the model needs, in millionths
Log10Micro ==
    (Num(10) :> 1000000) @@ (Num(600) :> 2778151) @@ (Num(900) :> 2954243) @@
    (Num(1690) :> 3227887) @@ (Num(2400) :> 3380211) @@ (Num(5800) :> 3763428)

\* Math.log10: NaN below zero, -Infinity at zero
Log10(x) ==
    IF IsNaN(x) \/ Less(x, Zero) THEN NaN
    ELSE IF x = Zero THEN NegInf
    ELSE IF x = PosInf THEN PosInf
    ELSE Norm(Log10Micro[x], 1000000)

(***************************************************************************)
(* Bounds and input sets.                                                  *)
(***************************************************************************)
\* the step count fetchTerrainProfile is called with (its default in the
\* source is 100)
Steps == 3

\* map locations, on a grid line; two clicks may hit the same location
LatLngs == { [lat |-> Num(0), lng |-> Num(0)], [lat |-> Num(1), lng |-> Num(0)] }

\* LatLng.distanceTo (leaflet): metres between two locations, 10 km per grid
\* unit here
distanceTo(a, b) ==
    LET dLat == Sub(a.lat, b.lat)
    IN  Mul(Num(10 * 1000), IF Less(dLat, Zero) THEN Neg(dLat) ELSE dLat)

\* elevations the elevation service may report, in metres
Elevations == {0, 10, 20}

\* positions of the antenna height sliders that the model uses
HeightValues == {1, 10}

RECURSIVE SeqsUpTo(_, _)
SeqsUpTo(S, n) ==
    IF n = 0 THEN {<<>>}
    ELSE LET shorter == SeqsUpTo(S, n - 1)
         IN  shorter \cup { Append(q, e) : q \in { r \in shorter : Len(r) = n - 1 }, e \in S }

\* the elevations the service reports in the runs of the whole application
AppElevations == {0, 20}

\* what the elevation request can end in: a network error, a non-OK status,
\* a body without results, or a body with 0 .. Steps + 1 results drawn from E
Responses(E) ==
    { [kind |-> k, results |-> <<>>] : k \in {"network", "status", "noresults"} }
    \cup { [kind |-> "ok", results |-> r] : r \in SeqsUpTo(E, Steps + 1) }

\* the responses drawn in the runs of the whole application
AppResponses == Responses(AppElevations)

\* the responses drawn in the runs of one analysis
AnalysisResponses == Responses(Elevations)

(***************************************************************************)
(* The analysis functions of App.tsx.                                      *)
(***************************************************************************)
\* a mutant: the drop below the horizon of the start point, d^2 / 2R, in
\* place of the bulge between the two ends
getCurvatureHeight_fromStart(curvature, distance, totalDistance) ==
    IF ~curvature \/ totalDistance = Zero THEN Zero
    ELSE Div(Mul(distance, distance), Mul(Num(2), Mul(Num(6371000), Div(Num(4), Num(3)))))

\* a mutant: the earth radius without the 4/3 refraction factor
getCurvatureHeight_plainRadius(curvature, distance, totalDistance) ==
    IF ~curvature \/ totalDistance = Zero THEN Zero
    ELSE Div(Mul(distance, Sub(totalDistance, distance)), Mul(Num(2), Num(6371000)))

\* a mutant: the rest of the path is taken as distance - totalDistance
getCurvatureHeight_restNegated(curvature, distance, totalDistance) ==
    IF ~curvature \/ totalDistance = Zero THEN Zero
    ELSE LET R_e == Mul(Num(6371000), Div(Num(4), Num(3)))
         IN  Div(Mul(distance, Sub(distance, totalDistance)), Mul(Num(2), R_e))

getCurvatureHeight(curvature, distance, totalDistance) ==
    IF ~curvature \/ totalDistance = Zero THEN Zero
    ELSE LET R_e == Mul(Num(6371000), Div(Num(4), Num(3)))
         IN  Div(Mul(distance, Sub(totalDistance, distance)), Mul(Num(2), R_e))

\* the outcome of fetchTerrainProfile: an Error thrown, or the profile and
\* the total distance
fetchTerrainProfile(start, end, steps, response) ==
    IF response.kind = "network"
    THEN [threw |-> TRUE, message |-> "Failed to fetch"]
    ELSE IF response.kind = "status"
    THEN [threw |-> TRUE, message |-> "Failed to fetch elevation data (status: 500)"]
    ELSE IF response.kind = "noresults" \/ Len(response.results) = 0
    THEN [threw |-> TRUE, message |-> "Invalid elevation data received from API."]
    ELSE LET totalDistance == distanceTo(start, end)
         IN  [threw |-> FALSE,
              totalDistance |-> totalDistance,
              profile |-> [ i \in 1 .. Len(response.results) |->
                              [distance |-> Mul(Div(Num(i - 1), Num(steps)), totalDistance),
                               elevation |-> Num(response.results[i])] ]]

\* the height of the line of sight above a sample
losHeightAt(p, totalDistance, startEl, endEl) ==
    Add(startEl, Mul(Sub(endEl, startEl), Div(p.distance, totalDistance)))

\* elevation plus curvature at a sample
effectiveTerrainHeight(p, totalDistance, curvature) ==
    Add(p.elevation, getCurvatureHeight(curvature, p.distance, totalDistance))

\* a mutant: the test also fires when terrain and line of sight are level
obstructs_nonstrict(effTerrH, losH) == ~IsNaN(effTerrH) /\ ~IsNaN(losH) /\ ~Less(effTerrH, losH)

\* the obstruction test of calculateLineOfSight
obstructs(effTerrH, losH) == Greater(effTerrH, losH)

\* a mutant: the scan runs on to the last sample
scanDone_pastEnd(i, profile) == i > Len(profile)

\* the end of the for loop of calculateLineOfSight, !(i < profile.length - 1)
\* (indices from 1 here)
scanDone(i, profile) == i > Len(profile) - 1

\* the for loop of calculateLineOfSight from index i on (indices from 1 here)
RECURSIVE losLoop(_, _, _, _, _, _)
losLoop(i, profile, totalDistance, startEl, endEl, curvature) ==
    IF scanDone(i, profile) THEN [isClear |-> TRUE]
    ELSE LET p == profile[i]
             losH == losHeightAt(p, totalDistance, startEl, endEl)
             effTerrH == effectiveTerrainHeight(p, totalDistance, curvature)
         IN  IF obstructs(effTerrH, losH)
             THEN [isClear |-> FALSE,
                   obstruction |-> [distance |-> p.distance, height |-> effTerrH,
                                    losHeight |-> losH]]
             ELSE losLoop(i + 1, profile, totalDistance, startEl, endEl, curvature)

\* a mutant: the antenna at the end is hung below the ground
calculateLineOfSight_endBelow(profile, totalDistance, heightA, heightB, curvature) ==
    LET startEl == Add(profile[1].elevation, Num(heightA))
        endEl == Sub(profile[Len(profile)].elevation, Num(heightB))
    IN  losLoop(2, profile, totalDistance, startEl, endEl, curvature)

\* a mutant: the scan starts one sample late
calculateLineOfSight_skipFirst(profile, totalDistance, heightA, heightB, curvature) ==
    LET startEl == Add(profile[1].elevation, Num(heightA))
        endEl == Add(profile[Len(profile)].elevation, Num(heightB))
    IN  losLoop(3, profile, totalDistance, startEl, endEl, curvature)

calculateLineOfSight(profile, totalDistance, heightA, heightB, curvature) ==
    LET startEl == Add(profile[1].elevation, Num(heightA))
        endEl == Add(profile[Len(profile)].elevation, Num(heightB))
    IN  losLoop(2, profile, totalDistance, startEl, endEl, curvature)

\* a mutant: the antenna gains are taken off the received signal
calculateRadioLink_gainsLost(totalDistance, specs) ==
    LET distKm == Div(totalDistance, Num(1000))
        pathLoss == Add(Add(Mul(Num(20), Log10(distKm)),
                            Mul(Num(20), Log10(Num(specs.frequency)))),
                        Norm(3244, 100))
        rssi == Sub(Sub(Sub(Num(specs.txPower), pathLoss), Num(specs.txAntennaGain)),
                    Num(specs.rxAntennaGain))
        margin == Sub(rssi, Num(specs.rxSensitivity))
    IN  [isViable |-> Greater(margin, Zero),
         distance |-> ToFixed2(distKm),
         pathLoss |-> ToFixed2(pathLoss),
         receivedSignalStrength |-> ToFixed2(rssi),
         linkMargin |-> ToFixed2(margin)]

calculateRadioLink(totalDistance, specs) ==
    LET distKm == Div(totalDistance, Num(1000))
        pathLoss == Add(Add(Mul(Num(20), Log10(distKm)),
                            Mul(Num(20), Log10(Num(specs.frequency)))),
                        Norm(3244, 100))
        rssi == Add(Add(Sub(Num(specs.txPower), pathLoss), Num(specs.txAntennaGain)),
                    Num(specs.rxAntennaGain))
        margin == Sub(rssi, Num(specs.rxSensitivity))
    IN  [isViable |-> Greater(margin, Zero),
         distance |-> ToFixed2(distKm),
         pathLoss |-> ToFixed2(pathLoss),
         receivedSignalStrength |-> ToFixed2(rssi),
         linkMargin |-> ToFixed2(margin)]

\* a mutant: the thresholds are inclusive
classify_inclusive(clearance) ==
    IF LessEq(clearance, Num(-10)) THEN "severe_obstruction"
    ELSE IF LessEq(clearance, Zero) THEN "obstruction"
    ELSE IF LessEq(clearance, Num(10)) THEN "clearance"
    ELSE "null"

\* the classification of a clearance (handleAnalyze); "null" is no type
classify(clearance) ==
    IF Less(clearance, Num(-10)) THEN "severe_obstruction"
    ELSE IF Less(clearance, Zero) THEN "obstruction"
    ELSE IF Less(clearance, Num(10)) THEN "clearance"
    ELSE "null"

\* a mutant: the segmenter leaves the curvature out
clearanceAt_noCurvature(p, totalDistance, startEl, endEl, curvature) ==
    Sub(losHeightAt(p, totalDistance, startEl, endEl), p.elevation)

\* a mutant: the difference is taken the other way round
clearanceAt_flipped(p, totalDistance, startEl, endEl, curvature) ==
    Sub(effectiveTerrainHeight(p, totalDistance, curvature),
        losHeightAt(p, totalDistance, startEl, endEl))

\* losH - effTerrH at a sample (handleAnalyze)
clearanceAt(p, totalDistance, startEl, endEl, curvature) ==
    Sub(losHeightAt(p, totalDistance, startEl, endEl),
        effectiveTerrainHeight(p, totalDistance, curvature))

\* the ConstraintPoint pushed for sample p
constraintPoint(p, type, value, totalDistance, pts) ==
    LET frac == IF Greater(totalDistance, Zero) THEN Div(p.distance, totalDistance) ELSE Zero
        a == pts[1][1]
        b == pts[2][1]
    IN  [latlng |-> [lat |-> Add(a.lat, Mul(Sub(b.lat, a.lat), frac)),
                     lng |-> Add(a.lng, Mul(Sub(b.lng, a.lng), frac))],
         type |-> type, value |-> value, distance |-> p.distance]

\* a mutant: a segment of two points is dropped as well
keepSegment_pairDropped(currentSegment) == Len(currentSegment) > 2

\* a mutant: a segment of one point is kept
keepSegment_single(currentSegment) == Len(currentSegment) > 0

\* whether handleAnalyze pushes the current segment when it closes
keepSegment(currentSegment) == Len(currentSegment) > 1

\* a mutant: a closed segment is put in front of the earlier ones
pushSegment_front(segments, currentSegment) == <<currentSegment>> \o segments

\* segments.push(currentSegment) of handleAnalyze
pushSegment(segments, currentSegment) == Append(segments, currentSegment)

\* a mutant: a new segment starts with its own first sample
startsWithPrevious_never(type, i) == FALSE

\* whether handleAnalyze starts the new segment with the sample before the
\* one whose type changed, type !== null && i > 0 (indices from 1 here)
startsWithPrevious(type, i) == type # "null" /\ i > 1

\* the segment loop of handleAnalyze from index i on (indices from 1 here),
\* with the push after the loop; c holds the values the loop reads
RECURSIVE segmentLoop(_, _, _, _)
segmentLoop(i, segments, currentSegment, c) ==
    IF i > Len(c.profile)
    THEN IF keepSegment(currentSegment) THEN pushSegment(segments, currentSegment) ELSE segments
    ELSE LET p == c.profile[i]
             clearance == clearanceAt(p, c.totalDistance, c.startEl, c.endEl, c.curvature)
             type == classify(clearance)
             currentType == IF Len(currentSegment) > 0 THEN currentSegment[1].type ELSE "null"
             changed == type # currentType
             pushed == IF changed /\ keepSegment(currentSegment)
                       THEN pushSegment(segments, currentSegment) ELSE segments
             prev == c.profile[i - 1]
             prevClearance == clearanceAt(prev, c.totalDistance, c.startEl, c.endEl, c.curvature)
             restarted == IF ~changed THEN currentSegment
                          ELSE IF startsWithPrevious(type, i)
                          THEN <<constraintPoint(prev, type, prevClearance, c.totalDistance, c.points)>>
                          ELSE <<>>
             extended == IF type # "null"
                         THEN Append(restarted,
                                     constraintPoint(p, type, clearance, c.totalDistance, c.points))
                         ELSE restarted
         IN  segmentLoop(i + 1, pushed, extended, c)

\* the segments handleAnalyze stores
segmentProfile(profile, totalDistance, heightA, heightB, curvature, pts) ==
    segmentLoop(1, <<>>, <<>>,
                [profile |-> profile, totalDistance |-> totalDistance,
                 startEl |-> Add(profile[1].elevation, Num(heightA)),
                 endEl |-> Add(profile[Len(profile)].elevation, Num(heightB)),
                 curvature |-> curvature, points |-> pts])

(***************************************************************************)
(* ProfileChart.tsx: what the chart derives from the props it is given.    *)
(***************************************************************************)
\* getCurvatureHeight of ProfileChart.tsx
chartGetCurvatureHeight(distance, totalDistance) ==
    IF totalDistance = Zero THEN Zero
    ELSE LET R_e == Num(6371000)
             K == Div(Num(4), Num(3))
             effectiveRadius == Mul(R_e, K)
             d1 == distance
             d2 == Sub(totalDistance, d1)
         IN  Div(Mul(d1, d2), Mul(Num(2), effectiveRadius))

\* the curvature term of combinedData
chartCurvature(curvature, distance, totalDistance) ==
    IF curvature THEN chartGetCurvatureHeight(distance, totalDistance) ELSE Zero

\* totalDistance of ProfileChart: the distance of the last sample
chartTotalDistance(profile) ==
    IF Len(profile) > 0 THEN profile[Len(profile)].distance ELSE Zero

\* combinedData of ProfileChart
combinedData(profile, heights, curvature) ==
    LET totalDistance == chartTotalDistance(profile)
        losStart == Add(profile[1].elevation, Num(heights[1]))
        losEnd == Add(profile[Len(profile)].elevation, Num(heights[2]))
    IN  [ i \in 1 .. Len(profile) |->
            LET p == profile[i]
            IN  [distance |-> p.distance,
                 elevation |-> p.elevation,
                 effectiveElevation |->
                     Add(p.elevation, chartCurvature(curvature, p.distance, totalDistance)),
                 los |-> Add(losStart, Mul(Sub(losEnd, losStart),
                                           Div(p.distance, totalDistance)))] ]

\* the sort key of sortedSegments, a[0]?.distance ?? 0
startDistance(segment) == IF Len(segment) > 0 THEN segment[1].distance ELSE Zero

\* segment put into a sequence sorted by start distance, behind the segments
\* that start at the same distance (Array.prototype.sort is stable)
RECURSIVE insertByStart(_, _)
insertByStart(sorted, segment) ==
    IF sorted = <<>> THEN <<segment>>
    ELSE IF Less(startDistance(segment), startDistance(sorted[Len(sorted)]))
    THEN Append(insertByStart(SubSeq(sorted, 1, Len(sorted) - 1), segment), sorted[Len(sorted)])
    ELSE Append(sorted, segment)

\* sortedSegments of ProfileChart: a sorted copy of constraintSegments
RECURSIVE sortedSegments(_)
sortedSegments(segments) ==
    IF segments = <<>> THEN <<>>
    ELSE insertByStart(sortedSegments(SubSeq(segments, 1, Len(segments) - 1)),
                       segments[Len(segments)])

\* the forEach of colorSegments over sorted from index k on; the result holds
\* the bands and lastDistance
RECURSIVE colorLoop(_, _, _, _)
colorLoop(k, sorted, bands, lastDistance) ==
    IF k > Len(sorted) THEN [bands |-> bands, lastDistance |-> lastDistance]
    ELSE LET segment == sorted[k]
         IN  IF Len(segment) < 2 THEN colorLoop(k + 1, sorted, bands, lastDistance)
             ELSE LET startDist == segment[1].distance
                      endDist == segment[Len(segment)].distance
                      gap == IF Greater(startDist, lastDistance)
                             THEN Append(bands, [start |-> lastDistance, end |-> startDist,
                                                 type |-> "good"])
                             ELSE bands
                  IN  colorLoop(k + 1, sorted,
                                Append(gap, [start |-> startDist, end |-> endDist,
                                             type |-> segment[1].type]),
                                endDist)

\* a mutant: the path behind the last segment gets no band
colorSegments_noTail(segments, totalDistance) ==
    LET looped == IF Greater(totalDistance, Zero)
                  THEN colorLoop(1, sortedSegments(segments), <<>>, Zero).bands
                  ELSE <<>>
    IN  IF Len(looped) = 0 /\ Greater(totalDistance, Zero)
        THEN <<[start |-> Zero, end |-> totalDistance, type |-> "good"]>>
        ELSE looped

\* colorSegments of ProfileChart
colorSegments(segments, totalDistance) ==
    LET looped == IF Greater(totalDistance, Zero)
                  THEN LET r == colorLoop(1, sortedSegments(segments), <<>>, Zero)
                       IN  IF Less(r.lastDistance, totalDistance)
                           THEN Append(r.bands, [start |-> r.lastDistance,
                                                 end |-> totalDistance, type |-> "good"])
                           ELSE r.bands
                  ELSE <<>>
    IN  IF Len(looped) = 0 /\ Greater(totalDistance, Zero)
        THEN <<[start |-> Zero, end |-> totalDistance, type |-> "good"]>>
        ELSE looped

(***************************************************************************)
(* MapDisplay.tsx: the popup of a constraint segment.                      *)
(***************************************************************************)
\* Math.min over the values of a segment: NaN if one of them is NaN
mathMin(values) ==
    IF \E v \in values : IsNaN(v) THEN NaN
    ELSE CHOOSE v \in values : \A w \in values : LessEq(v, w)

\* getSegmentPopupInfo of a segment that is not empty: the title, chosen by
\* the type of the first point, and the minimum value the message prints
getSegmentPopupInfo(segment) ==
    LET values == { segment[j].value : j \in 1 .. Len(segment) }
        minVal == mathMin(values)
        type == segment[1].type
    IN  [title |-> CASE type = "severe_obstruction" -> "Path Severely Obstructed"
                     [] type = "obstruction" -> "Path Obstructed"
                     [] type = "clearance" -> "Tight Clearance"
                     [] OTHER -> "Constraint Info",
         minVal |-> minVal]

(***************************************************************************)
(* The state of App and its handlers.                                      *)
(***************************************************************************)
initialRadioSpecs ==
    [frequency |-> 5800, txPower |-> 20, txAntennaType |-> "custom", txAntennaGain |-> 12,
     rxAntennaType |-> "custom", rxAntennaGain |-> 12, rxSensitivity |-> -85]

Init ==
    /\ points = <<None, None>>
    /\ antennaHeights = <<10, 10>>
    /\ radioSpecs = initialRadioSpecs
    /\ useRadioSpecs = FALSE
    /\ useCurvature = TRUE
    /\ terrainProfile = None
    /\ losResult = None
    /\ radioLinkResult = None
    /\ constraintSegments = <<>>
    /\ isLoading = FALSE
    /\ error = None
    /\ pending = None

\* the state update of handleMapClick
mapClickPoints(prevPoints, latlng) ==
    IF prevPoints[1] = None THEN <<Some(latlng), None>>
    ELSE IF prevPoints[2] = None THEN <<prevPoints[1], Some(latlng)>>
    ELSE <<Some(latlng), None>>

\* a mutant: a click is never ignored
mapClickReturns_never == FALSE

\* the early return of handleMapClick, if (losResult) return
mapClickReturns == losResult # None

handleMapClick(latlng) ==
    /\ ~mapClickReturns
    /\ points' = mapClickPoints(points, latlng)
    /\ terrainProfile' = None
    /\ losResult' = None
    /\ radioLinkResult' = None
    /\ constraintSegments' = <<>>
    /\ error' = None
    /\ UNCHANGED <<antennaHeights, radioSpecs, useRadioSpecs, useCurvature, isLoading, pending>>

\* a click while a result is shown returns at once
handleMapClickIgnored ==
    /\ mapClickReturns
    /\ UNCHANGED vars

\* dragend of marker index (1 or 2 here), which exists only when its point is set
handleMarkerDrag(index, latlng) ==
    /\ points[index] # None
    /\ points' = [points EXCEPT ![index] = Some(latlng)]
    /\ terrainProfile' = None
    /\ losResult' = None
    /\ radioLinkResult' = None
    /\ constraintSegments' = <<>>
    /\ error' = None
    /\ UNCHANGED <<antennaHeights, radioSpecs, useRadioSpecs, useCurvature, isLoading, pending>>

handleReset ==
    /\ points' = <<None, None>>
    /\ terrainProfile' = None
    /\ losResult' = None
    /\ radioLinkResult' = None
    /\ constraintSegments' = <<>>
    /\ error' = None
    /\ useRadioSpecs' = FALSE
    /\ useCurvature' = TRUE
    /\ UNCHANGED <<antennaHeights, radioSpecs, isLoading, pending>>

\* the antenna height sliders of ControlPanel, disabled while loading
onHeightChange(index, value) ==
    /\ ~isLoading
    /\ antennaHeights' = [antennaHeights EXCEPT ![index] = value]
    /\ UNCHANGED <<points, radioSpecs, useRadioSpecs, useCurvature, terrainProfile, losResult,
                   radioLinkResult, constraintSegments, isLoading, error, pending>>

onUseCurvatureChange(enabled) ==
    /\ ~isLoading
    /\ useCurvature' = enabled
    /\ UNCHANGED <<points, antennaHeights, radioSpecs, useRadioSpecs, terrainProfile, losResult,
                   radioLinkResult, constraintSegments, isLoading, error, pending>>

onUseRadioSpecsChange(enabled) ==
    /\ ~isLoading
    /\ useRadioSpecs' = enabled
    /\ UNCHANGED <<points, antennaHeights, radioSpecs, useCurvature, terrainProfile, losResult,
                   radioLinkResult, constraintSegments, isLoading, error, pending>>

\* handleAnalyze up to its await; the Analyze button is disabled unless both
\* points are selected and nothing is loading.  pending holds the values the
\* running call has closed over.
handleAnalyze ==
    /\ points[1] # None /\ points[2] # None
    /\ ~isLoading
    /\ IF points[1] = None \/ points[2] = None
       THEN /\ error' = Some("Please select two points on the map.")
            /\ UNCHANGED <<terrainProfile, losResult, radioLinkResult, constraintSegments,
                           isLoading, pending>>
       ELSE /\ isLoading' = TRUE
            /\ error' = None
            /\ terrainProfile' = None
            /\ losResult' = None
            /\ radioLinkResult' = None
            /\ constraintSegments' = <<>>
            /\ pending' = Some([points |-> points, antennaHeights |-> antennaHeights,
                                useRadioSpecs |-> useRadioSpecs, useCurvature |-> useCurvature,
                                radioSpecs |-> radioSpecs])
    /\ UNCHANGED <<points, antennaHeights, radioSpecs, useRadioSpecs, useCurvature>>

\* a mutant: a failed analysis leaves no message
analysisFailed_silent(message) ==
    UNCHANGED <<error, terrainProfile, losResult, radioLinkResult, constraintSegments>>

\* a mutant: a failed request is taken for a path without obstruction
analysisFailed_asClear(message) ==
    /\ losResult' = Some([isClear |-> TRUE])
    /\ UNCHANGED <<error, terrainProfile, radioLinkResult, constraintSegments>>

\* the catch block of handleAnalyze
analysisFailed(message) ==
    /\ error' = Some("Analysis failed. " \o message)
    /\ UNCHANGED <<terrainProfile, losResult, radioLinkResult, constraintSegments>>

\* a mutant: the link budget is computed whenever radio analysis is enabled
wantsRadioLink_ungated(c, result) == c.useRadioSpecs

\* whether handleAnalyze computes the link budget
wantsRadioLink(c, result) == c.useRadioSpecs /\ result.isClear

\* handleAnalyze from the await on, the request having ended in response
handleAnalyzeResume(response) ==
    /\ pending # None
    /\ LET c == pending[1]
           fetched == fetchTerrainProfile(c.points[1][1], c.points[2][1], Steps, response)
       IN  IF fetched.threw
           THEN analysisFailed(fetched.message)
           ELSE LET result == calculateLineOfSight(fetched.profile, fetched.totalDistance,
                                   c.antennaHeights[1], c.antennaHeights[2], c.useCurvature)
                IN  /\ terrainProfile' = Some(fetched.profile)
                    /\ losResult' = Some(result)
                    /\ radioLinkResult' =
                           IF wantsRadioLink(c, result)
                           THEN Some(calculateRadioLink(fetched.totalDistance, c.radioSpecs))
                           ELSE radioLinkResult
                    /\ constraintSegments' =
                           segmentProfile(fetched.profile, fetched.totalDistance,
                                          c.antennaHeights[1], c.antennaHeights[2],
                                          c.useCurvature, c.points)
                    /\ UNCHANGED error
    /\ isLoading' = FALSE
    /\ pending' = None
    /\ UNCHANGED <<points, antennaHeights, radioSpecs, useRadioSpecs, useCurvature>>

Next ==
    \/ \E latlng \in LatLngs : handleMapClick(latlng)
    \/ handleMapClickIgnored
    \/ \E index \in {1, 2}, latlng \in LatLngs : handleMarkerDrag(index, latlng)
    \/ handleReset
    \/ \E index \in {1, 2}, value \in HeightValues : onHeightChange(index, value)
    \/ \E enabled \in BOOLEAN : onUseCurvatureChange(enabled)
    \/ \E enabled \in BOOLEAN : onUseRadioSpecsChange(enabled)
    \/ handleAnalyze
    \/ \E response \in AppResponses : handleAnalyzeResume(response)

Spec == Init /\ [][Next]_vars

(***************************************************************************)
(* The whole application over level terrain, with every elevation request  *)
(* settling: a request that is under way ends in a response or an error.   *)
(***************************************************************************)
\* the responses of a service that reports level terrain
LevelResponses == Responses({0})

FairNext ==
    \/ \E latlng \in LatLngs : handleMapClick(latlng)
    \/ handleMapClickIgnored
    \/ \E index \in {1, 2}, latlng \in LatLngs : handleMarkerDrag(index, latlng)
    \/ handleReset
    \/ \E index \in {1, 2}, value \in HeightValues : onHeightChange(index, value)
    \/ \E enabled \in BOOLEAN : onUseCurvatureChange(enabled)
    \/ \E enabled \in BOOLEAN : onUseRadioSpecsChange(enabled)
    \/ handleAnalyze
    \/ \E response \in LevelResponses : handleAnalyzeResume(response)

FairSpec ==
    /\ Init
    /\ [][FairNext]_vars
    /\ WF_vars(\E response \in LevelResponses : handleAnalyzeResume(response))

(***************************************************************************)
(* ControlPanel.tsx: the radio controls.                                   *)
(***************************************************************************)
\* the keys of antennaOptions in the order of Object.entries
antennaKeys == <<"omni", "yagi", "panel", "dish", "custom">>

\* the gains of antennaOptions; -1 stands for not changing the gain
antennaOptions ==
    [type \in {"omni", "yagi", "panel", "dish", "custom"} |->
        CASE type = "omni" -> 6
          [] type = "yagi" -> 12
          [] type = "panel" -> 16
          [] type = "dish" -> 24
          [] OTHER -> -1]

gainKey(specKey) == IF specKey = "tx" THEN "txAntennaGain" ELSE "rxAntennaGain"

typeKey(specKey) == IF specKey = "tx" THEN "txAntennaType" ELSE "rxAntennaType"

\* a mutant: selecting a type leaves the gain as it is
typeChangeSpecs_gainKept(specs, specKey, type) == [specs EXCEPT ![typeKey(specKey)] = type]

\* the specs handleAntennaTypeChange passes to onRadioSpecsChange
typeChangeSpecs(specs, specKey, type) ==
    LET newGain == antennaOptions[type]
        newSpecs == [specs EXCEPT ![typeKey(specKey)] = type]
    IN  IF newGain # -1 THEN [newSpecs EXCEPT ![gainKey(specKey)] = newGain] ELSE newSpecs

\* the loop of handleAntennaGainChange from key k on: the first type whose
\* gain is the given one, custom if there is none
RECURSIVE typeOfGain(_, _)
typeOfGain(k, gain) ==
    IF k > Len(antennaKeys) THEN "custom"
    ELSE IF antennaOptions[antennaKeys[k]] = gain THEN antennaKeys[k]
    ELSE typeOfGain(k + 1, gain)

\* the specs handleAntennaGainChange passes to onRadioSpecsChange
gainChangeSpecs(specs, specKey, gain) ==
    [specs EXCEPT ![gainKey(specKey)] = gain, ![typeKey(specKey)] = typeOfGain(1, gain)]

\* the antenna selects and gain sliders are disabled while loading
handleAntennaTypeChange(specKey, type) ==
    /\ ~isLoading
    /\ radioSpecs' = typeChangeSpecs(radioSpecs, specKey, type)
    /\ UNCHANGED <<points, antennaHeights, useRadioSpecs, useCurvature, terrainProfile,
                   losResult, radioLinkResult, constraintSegments, isLoading, error, pending>>

handleAntennaGainChange(specKey, gain) ==
    /\ ~isLoading
    /\ radioSpecs' = gainChangeSpecs(radioSpecs, specKey, gain)
    /\ UNCHANGED <<points, antennaHeights, useRadioSpecs, useCurvature, terrainProfile,
                   losResult, radioLinkResult, constraintSegments, isLoading, error, pending>>

\* the frequency, power and sensitivity sliders
handleSpecChange(field, value) ==
    /\ ~isLoading
    /\ radioSpecs' = [radioSpecs EXCEPT ![field] = value]
    /\ UNCHANGED <<points, antennaHeights, useRadioSpecs, useCurvature, terrainProfile,
                   losResult, radioLinkResult, constraintSegments, isLoading, error, pending>>

\* positions of the gain sliders that the model uses: the ends, the four
\* preset gains and one gain that is no preset
GainValues == {0, 6, 12, 15, 16, 24, 30}

\* slider changes of the other radio specs that the model uses
SpecChanges == {<<"frequency", 2400>>, <<"frequency", 5800>>, <<"txPower", 10>>, <<"txPower", 20>>}

RadioControlNext ==
    \/ \E specKey \in {"tx", "rx"}, type \in DOMAIN antennaOptions :
           handleAntennaTypeChange(specKey, type)
    \/ \E specKey \in {"tx", "rx"}, gain \in GainValues : handleAntennaGainChange(specKey, gain)
    \/ \E change \in SpecChanges : handleSpecChange(change[1], change[2])

RadioControlSpec == Init /\ [][RadioControlNext]_vars

(***************************************************************************)
(* One analysis at a time, over every setting the controls can be left in  *)
(* before Analyze is pressed: the points, antenna heights and options are  *)
(* chosen in the initial state and only handleAnalyze runs.                *)
(***************************************************************************)
AnalysisInit ==
    /\ points \in { <<Some(a), Some(b)>> : a \in LatLngs, b \in LatLngs }
    /\ antennaHeights \in HeightValues \X HeightValues
    /\ radioSpecs = initialRadioSpecs
    /\ useRadioSpecs \in BOOLEAN
    /\ useCurvature \in BOOLEAN
    /\ terrainProfile = None
    /\ losResult = None
    /\ radioLinkResult = None
    /\ constraintSegments = <<>>
    /\ isLoading = FALSE
    /\ error = None
    /\ pending = None

AnalysisNext ==
    \/ handleAnalyze
    \/ \E response \in AnalysisResponses : handleAnalyzeResume(response)

AnalysisSpec == AnalysisInit /\ [][AnalysisNext]_vars

(***************************************************************************)
(* One analysis with radio analysis enabled, over settings the radio       *)
(* controls can be left in before Analyze is pressed.                      *)
(***************************************************************************)
\* settings of the radio controls that the model uses: frequencies 600, 1690
\* and 5800 MHz, both antenna selects on Custom at 12 dBi or on Omni (6 dBi),
\* receiver sensitivities -85 and -100 dBm
RadioSpecsValues ==
    { [initialRadioSpecs EXCEPT !.frequency = f, !.rxSensitivity = r,
                                !.txAntennaType = a[1], !.txAntennaGain = a[2],
                                !.rxAntennaType = a[1], !.rxAntennaGain = a[2]] :
        f \in {600, 1690, 5800}, r \in {-85, -100}, a \in {<<"custom", 12>>, <<"omni", 6>>} }

RadioLinkInit ==
    /\ points \in { <<Some(a), Some(b)>> : a \in LatLngs, b \in LatLngs }
    /\ antennaHeights = <<10, 10>>
    /\ radioSpecs \in RadioSpecsValues
    /\ useRadioSpecs = TRUE
    /\ useCurvature \in BOOLEAN
    /\ terrainProfile = None
    /\ losResult = None
    /\ radioLinkResult = None
    /\ constraintSegments = <<>>
    /\ isLoading = FALSE
    /\ error = None
    /\ pending = None

RadioLinkNext ==
    \/ handleAnalyze
    \/ \E response \in AppResponses : handleAnalyzeResume(response)

RadioLinkSpec == RadioLinkInit /\ [][RadioLinkNext]_vars

(***************************************************************************)
(* Properties.  Under AnalysisSpec the controls are not touched after      *)
(* Analyze, so a stored result was computed from the points, heights and   *)
(* options of the same state.                                              *)
(***************************************************************************)
shownProfile == terrainProfile[1]

shownTotal == distanceTo(points[1][1], points[2][1])

shownStartEl == Add(shownProfile[1].elevation, Num(antennaHeights[1]))

shownEndEl == Add(shownProfile[Len(shownProfile)].elevation, Num(antennaHeights[2]))

shownLosH(i) == losHeightAt(shownProfile[i], shownTotal, shownStartEl, shownEndEl)

shownEffTerrH(i) == effectiveTerrainHeight(shownProfile[i], shownTotal, useCurvature)

shownInterior == 2 .. Len(shownProfile) - 1

shownViolates(i) == Greater(shownEffTerrH(i), shownLosH(i))

\* C1: the obstruction reported is the first interior sample, in scan order,
\* whose effective terrain height is strictly above the line of sight: every
\* interior sample before it has effective height <= line-of-sight height,
\* and with no violating interior sample the result is clear.
C1_FirstViolationReported ==
    losResult # None =>
        IF \E i \in shownInterior : shownViolates(i)
        THEN /\ ~losResult[1].isClear
             /\ \E k \in shownInterior :
                    /\ shownViolates(k)
                    /\ \A j \in shownInterior : j < k => LessEq(shownEffTerrH(j), shownLosH(j))
                    /\ losResult[1].obstruction =
                           [distance |-> shownProfile[k].distance,
                            height |-> shownEffTerrH(k), losHeight |-> shownLosH(k)]
        ELSE losResult[1].isClear

\* a mild violation is reported although a deeper one lies behind it
C1_Witness ==
    /\ losResult # None
    /\ ~losResult[1].isClear
    /\ \E j \in shownInterior :
           /\ Greater(shownProfile[j].distance, losResult[1].obstruction.distance)
           /\ Greater(Sub(shownEffTerrH(j), shownLosH(j)),
                      Sub(losResult[1].obstruction.height, losResult[1].obstruction.losHeight))

\* C2: a LOSResult carries an obstruction if and only if isClear is false,
\* and the obstruction's height is strictly greater than its losHeight.
C2_ObstructionIffNotClear ==
    losResult # None =>
        /\ ("obstruction" \in DOMAIN losResult[1]) <=> ~losResult[1].isClear
        /\ "obstruction" \in DOMAIN losResult[1] =>
               Greater(losResult[1].obstruction.height, losResult[1].obstruction.losHeight)

\* an obstructed result next to a sample level with the line of sight
C2_Witness ==
    /\ losResult # None
    /\ "obstruction" \in DOMAIN losResult[1]
    /\ \E i \in shownInterior : shownEffTerrH(i) = shownLosH(i)

\* C3: every stored segment has at least 2 points, its points share one
\* type, and a segment ends no later than the next one starts (they share
\* at most the boundary sample).
C3_SegmentsWellFormed ==
    /\ \A k \in 1 .. Len(constraintSegments) :
           LET seg == constraintSegments[k]
           IN  /\ Len(seg) >= 2
               /\ \A j \in 1 .. Len(seg) : seg[j].type = seg[1].type
    /\ \A k \in 1 .. Len(constraintSegments) - 1 :
           LET seg == constraintSegments[k]
               next == constraintSegments[k + 1]
           IN  LessEq(seg[Len(seg)].distance, next[1].distance)

\* two segments are stored and meet in one sample
C3_Witness ==
    /\ Len(constraintSegments) >= 2
    /\ LET seg == constraintSegments[1]
       IN  seg[Len(seg)].distance = constraintSegments[2][1].distance

\* the band of a clearance value, stated with its closed and open ends
bandOf(value) ==
    IF IsNaN(value) THEN "null"
    ELSE IF Less(value, Num(-10)) THEN "severe_obstruction"
    ELSE IF LessEq(Num(-10), value) /\ Less(value, Zero) THEN "obstruction"
    ELSE IF LessEq(Zero, value) /\ Less(value, Num(10)) THEN "clearance"
    ELSE "null"

\* the points of the stored segments that were classified themselves: all
\* but a first point that handleAnalyze put in front from the sample before
ownPoints ==
    UNION { { constraintSegments[k][j] : j \in 2 .. Len(constraintSegments[k]) } :
            k \in 1 .. Len(constraintSegments) }

\* C4: a sample is classified by its clearance with strict thresholds:
\* below -10 severe_obstruction, else below 0 obstruction, else below 10
\* clearance, else nothing; so -10 is obstruction, 0 is clearance and a
\* sample with clearance 10 is in no segment as a classified point.
C4_StrictThresholds ==
    /\ \A q \in ownPoints : q.type = bandOf(q.value)
    /\ terrainProfile # None =>
           \A i \in 2 .. Len(shownProfile) :
               LET clearance == Sub(shownLosH(i), shownEffTerrH(i))
               IN  \/ bandOf(clearance) = "null"
                   \/ \E q \in ownPoints : /\ q.distance = shownProfile[i].distance
                                           /\ q.value = clearance
                                           /\ q.type = bandOf(clearance)

\* samples with clearance exactly -10, 0 and 10 in one profile
C4_Witness ==
    /\ terrainProfile # None
    /\ \E q \in ownPoints : q.value = Num(-10) /\ q.type = "obstruction"
    /\ \E q \in ownPoints : q.value = Zero /\ q.type = "clearance"
    /\ \E i \in 2 .. Len(shownProfile) :
           /\ Sub(shownLosH(i), shownEffTerrH(i)) = Num(10)
           /\ \A q \in ownPoints : q.distance # shownProfile[i].distance

\* C5: the link budget is computed only when radio analysis was enabled for
\* the analysis and its LOS result is clear: a radioLinkResult is stored
\* only next to a clear losResult, and it is newly stored only by an
\* analysis that was started with useRadioSpecs on.
C5_LinkBudgetGated ==
    [][ radioLinkResult' # None =>
            /\ losResult' # None
            /\ losResult'[1].isClear
            /\ radioLinkResult = None => (pending # None /\ pending[1].useRadioSpecs) ]_vars

\* a link budget is on display
C5_Witness == radioLinkResult # None /\ losResult # None /\ losResult[1].isClear

\* the elevation requests that fail
failedResponses ==
    { [kind |-> k, results |-> <<>>] : k \in {"network", "status", "noresults", "ok"} }

\* C6: when the terrain fetch fails (network error, non-OK status, missing
\* or empty results) the analysis fails as a whole: the step that ends it
\* leaves an error and no profile, LOS result, link budget or segment.
C6_FailedFetchFailsWhole ==
    [][ \A response \in failedResponses :
            handleAnalyzeResume(response) =>
                /\ error' # None
                /\ terrainProfile' = None
                /\ losResult' = None
                /\ radioLinkResult' = None
                /\ constraintSegments' = <<>> ]_vars

\* an analysis has ended in the error of an empty result set
C6_Witness ==
    /\ error = Some("Analysis failed. Invalid elevation data received from API.")
    /\ ~isLoading
    /\ pending = None

\* C7: an analysis whose points were changed or reset while its fetch was
\* pending is discarded: no step stores a profile, LOS result, link budget
\* or segments while the pending analysis is for other points than shown.
C7_AbandonedAnalysisDiscarded ==
    [][ (pending # None /\ pending[1].points # points) =>
            /\ terrainProfile' = None
            /\ losResult' = None
            /\ radioLinkResult' = None
            /\ constraintSegments' = <<>> ]_vars

\* C8: no LOSResult is stored by an analysis whose total distance is not
\* positive (coincident endpoints).
C8_ZeroDistanceRejected ==
    [][ (pending # None /\
         ~Greater(distanceTo(pending[1].points[1][1], pending[1].points[2][1]), Zero)) =>
            losResult' = None ]_vars

\* C9: no LOSResult is stored for a profile of fewer than 2 samples.
C9_SingleSampleRejected ==
    losResult # None => (terrainProfile # None /\ Len(terrainProfile[1]) >= 2)

\* C10: a stored RadioLinkResult has finite pathLoss, receivedSignalStrength
\* and linkMargin, and is not viable over a distance of zero.
C10_RadioLinkFinite ==
    radioLinkResult # None =>
        /\ IsFinite(radioLinkResult[1].pathLoss)
        /\ IsFinite(radioLinkResult[1].receivedSignalStrength)
        /\ IsFinite(radioLinkResult[1].linkMargin)
        /\ ~(radioLinkResult[1].distance = Zero /\ radioLinkResult[1].isViable)

\* the curvature formula of the 4/3 earth radius model, as the claim states it
statedCurvature(curvature, d, total) ==
    IF curvature /\ total # Zero
    THEN Div(Mul(d, Sub(total, d)), Mul(Mul(Num(2), Div(Num(4), Num(3))), Num(6371000)))
    ELSE Zero

\* the points handleAnalyze put in front of a run from the sample before it
frontPoints ==
    { constraintSegments[k][1] : k \in 1 .. Len(constraintSegments) }

\* the samples of the shown profile at the distance of a segment point
samplesAt(q) == { i \in 1 .. Len(shownProfile) : shownProfile[i].distance = q.distance }

\* C11: for every sample distance, total distance and curvature setting the
\* LOS evaluator, the segmenter (for a sample and for the previous sample it
\* puts in front of a run) and the chart's own getCurvatureHeight use the
\* same curvature, d*(total-d)/(2*(4/3)*6371000) when curvature is enabled
\* and total is not 0, and 0 otherwise.
C11_OneCurvatureValue ==
    terrainProfile # None =>
        /\ \A i \in 1 .. Len(shownProfile) :
               LET d == shownProfile[i].distance
                   stated == statedCurvature(useCurvature, d, shownTotal)
               IN  /\ getCurvatureHeight(useCurvature, d, shownTotal) = stated
                   /\ chartCurvature(useCurvature, d, shownTotal) = stated
        /\ "obstruction" \in DOMAIN losResult[1] =>
               \E i \in shownInterior :
                   /\ losResult[1].obstruction.distance = shownProfile[i].distance
                   /\ losResult[1].obstruction.height =
                          Add(shownProfile[i].elevation,
                              statedCurvature(useCurvature, shownProfile[i].distance, shownTotal))
        /\ \A q \in ownPoints \cup frontPoints :
               \E i \in samplesAt(q) :
                   q.value = Sub(shownLosH(i),
                                 Add(shownProfile[i].elevation,
                                     statedCurvature(useCurvature, q.distance, shownTotal)))

\* curvature is on, an obstruction with a curvature term is reported and a
\* run has the sample before it in front
C11_Witness ==
    /\ losResult # None
    /\ useCurvature
    /\ "obstruction" \in DOMAIN losResult[1]
    /\ \E i \in shownInterior :
           /\ losResult[1].obstruction.distance = shownProfile[i].distance
           /\ Greater(losResult[1].obstruction.height, shownProfile[i].elevation)
    /\ \E q \in frontPoints : q.type # bandOf(q.value)

\* the distances at which the curvature of the shown path is looked at: the
\* samples, their mirror images, the two ends and the midpoint
curvatureDistances ==
    LET samples == { shownProfile[i].distance : i \in 1 .. Len(shownProfile) }
    IN  samples \cup { Sub(shownTotal, d) : d \in samples }
        \cup {Zero, shownTotal, Div(shownTotal, Num(2))}

\* C12: getCurvatureHeight is 0 when curvature is disabled or the total
\* distance is 0; for a total above 0 it is 0 at distance 0 and at distance
\* total, and on 0 <= d <= total it is non-negative, the same at d and at
\* total - d, and nowhere larger than at total/2.
C12_CurvatureShape ==
    terrainProfile # None =>
        LET h(d) == getCurvatureHeight(useCurvature, d, shownTotal)
        IN  /\ (~useCurvature \/ shownTotal = Zero) =>
                   \A d \in curvatureDistances : h(d) = Zero
            /\ Greater(shownTotal, Zero) =>
                   /\ h(Zero) = Zero
                   /\ h(shownTotal) = Zero
                   /\ \A d \in curvatureDistances :
                          /\ LessEq(Zero, h(d))
                          /\ h(d) = h(Sub(shownTotal, d))
                          /\ LessEq(h(d), h(Div(shownTotal, Num(2))))

\* curvature is on over a path of positive length, with a bulge above 0 at a
\* sample
C12_Witness ==
    /\ terrainProfile # None
    /\ useCurvature
    /\ Greater(shownTotal, Zero)
    /\ \E d \in curvatureDistances :
           Greater(getCurvatureHeight(useCurvature, d, shownTotal), Zero)

\* the clearance the segmenter computes at sample i of the shown profile
shownClearance(i) ==
    clearanceAt(shownProfile[i], shownTotal, shownStartEl, shownEndEl, useCurvature)

\* equal antenna heights, one elevation at every sample, curvature disabled
shownSymmetric ==
    /\ terrainProfile # None
    /\ antennaHeights[1] = antennaHeights[2]
    /\ ~useCurvature
    /\ \A i \in 1 .. Len(shownProfile) : shownProfile[i].elevation = shownProfile[1].elevation

\* C13 as stated: for symmetric inputs the LOS result is clear and the
\* clearance at every sample is 0.  It is stated for profiles of at least 2
\* samples over a total distance above 0, the inputs the evaluator is meant
\* to accept.
C13_SymmetricClearanceZero ==
    (shownSymmetric /\ Len(shownProfile) >= 2 /\ Greater(shownTotal, Zero)) =>
        /\ losResult[1].isClear
        /\ \A i \in 1 .. Len(shownProfile) : shownClearance(i) = Zero

\* C13 as amended: for symmetric inputs the LOS result is clear, and the
\* clearance at every sample is the common antenna height when the total
\* distance is above 0 (NaN when it is 0); every stored segment point
\* carries that height as its value.
C13_SymmetricClearanceIsHeight ==
    shownSymmetric =>
        /\ losResult[1].isClear
        /\ \A i \in 1 .. Len(shownProfile) :
               shownClearance(i) = IF Greater(shownTotal, Zero) THEN Num(antennaHeights[1])
                                   ELSE NaN
        /\ \A k \in 1 .. Len(constraintSegments) :
               \A j \in 1 .. Len(constraintSegments[k]) :
                   constraintSegments[k][j].value = Num(antennaHeights[1])

\* a symmetric analysis over a positive distance with interior samples, all
\* of them in one stored segment
C13_Witness ==
    /\ shownSymmetric
    /\ Greater(shownTotal, Zero)
    /\ Len(shownProfile) >= 3
    /\ Len(constraintSegments) = 1
    /\ Len(constraintSegments[1]) = Len(shownProfile)

\* C14: for a profile of exactly 2 samples, whatever the elevations, antenna
\* heights, total distance and curvature setting, the LOS result is clear and
\* carries no obstruction.
C14_TwoSamplesClear ==
    (terrainProfile # None /\ Len(shownProfile) = 2) => losResult = Some([isClear |-> TRUE])

\* a two-sample profile whose second sample rises above the antenna at the
\* start, with curvature on and a total distance above 0
C14_Witness ==
    /\ terrainProfile # None
    /\ Len(shownProfile) = 2
    /\ losResult # None
    /\ useCurvature
    /\ Greater(shownTotal, Zero)
    /\ Greater(shownProfile[2].elevation, shownStartEl)

\* C15: a stored RadioLinkResult is viable exactly when its linkMargin field
\* is strictly greater than 0: the flag agrees with the sign of the field,
\* and a result whose linkMargin is 0 is not viable.
C15_ViableAgreesWithMargin ==
    radioLinkResult # None =>
        (radioLinkResult[1].isViable <=> Greater(radioLinkResult[1].linkMargin, Zero))

\* the free-space path loss in dB over distKm kilometres at frequency MHz, as
\* the claim states it
statedPathLoss(distKm, frequency) ==
    Add(Add(Mul(Num(20), Log10(distKm)), Mul(Num(20), Log10(Num(frequency)))), Norm(3244, 100))

\* C16: the fields of a stored RadioLinkResult are, to 2 decimal places,
\* pathLoss = 20 log10(km) + 20 log10(MHz) + 32.44, receivedSignalStrength =
\* txPower - pathLoss + txAntennaGain + rxAntennaGain and linkMargin =
\* receivedSignalStrength - rxSensitivity; over 10 km at 5800 MHz, 20 dBm,
\* gains 12 and 12 and sensitivity -85 they are 127.71, -83.71 and 1.29 and
\* the link is viable.
C16_LinkBudget ==
    radioLinkResult # None =>
        LET r == radioLinkResult[1]
            pathLoss == statedPathLoss(Div(shownTotal, Num(1000)), radioSpecs.frequency)
            rssi == Add(Add(Sub(Num(radioSpecs.txPower), pathLoss),
                            Num(radioSpecs.txAntennaGain)), Num(radioSpecs.rxAntennaGain))
        IN  /\ r.pathLoss = ToFixed2(pathLoss)
            /\ r.receivedSignalStrength = ToFixed2(rssi)
            /\ r.linkMargin = ToFixed2(Sub(rssi, Num(radioSpecs.rxSensitivity)))
            /\ (shownTotal = Num(10000) /\ radioSpecs = initialRadioSpecs) =>
                   r = [isViable |-> TRUE, distance |-> Num(10),
                        pathLoss |-> Norm(12771, 100),
                        receivedSignalStrength |-> Norm(-8371, 100),
                        linkMargin |-> Norm(129, 100)]

\* a link budget stored for the 10 km example of the claim
C16_Witness ==
    /\ radioLinkResult # None
    /\ shownTotal = Num(10000)
    /\ radioSpecs = initialRadioSpecs

\* the type the segmenter gives sample i of the shown profile
shownType(i) == classify(shownClearance(i))

\* the sample of the shown profile at the distance of a segment point
sampleOf(q) == CHOOSE i \in 1 .. Len(shownProfile) : shownProfile[i].distance = q.distance

\* C18 as stated: boundary duplication happens on closing, so the last point
\* of every stored segment is the last sample of its run and the first point
\* of every stored segment is a sample of the segment's own run, never one of
\* a different run.
C18_DuplicationOnClosing ==
    \A k \in 1 .. Len(constraintSegments) :
        LET seg == constraintSegments[k]
            f == sampleOf(seg[1])
            l == sampleOf(seg[Len(seg)])
        IN  /\ shownType(l) = seg[1].type
            /\ l = Len(shownProfile) \/ shownType(l + 1) # seg[1].type
            /\ shownType(f) = seg[1].type

\* C18: boundary duplication happens on opening.  The points of a stored
\* segment are consecutive samples f .. l with their own clearances; the
\* samples after f are one whole run of the segment's type, ending at l; and
\* f is either the first sample of the profile or the sample before the run,
\* which is of another type or of none and is given the type of the segment.
\* Nothing is added to a segment when it closes.
C18_DuplicationOnOpening ==
    \A k \in 1 .. Len(constraintSegments) :
        LET seg == constraintSegments[k]
            f == sampleOf(seg[1])
            l == sampleOf(seg[Len(seg)])
        IN  /\ Len(seg) = l - f + 1
            /\ \A j \in 1 .. Len(seg) :
                   /\ seg[j].distance = shownProfile[f + j - 1].distance
                   /\ seg[j].value = shownClearance(f + j - 1)
                   /\ seg[j].type = seg[1].type
            /\ \A i \in f + 1 .. l : shownType(i) = seg[1].type
            /\ l = Len(shownProfile) \/ shownType(l + 1) # seg[1].type
            /\ f = 1 \/ shownType(f) # seg[1].type
            /\ shownType(f) # seg[1].type =>
                   \A j \in 1 .. k - 1 :
                       sampleOf(constraintSegments[j][Len(constraintSegments[j])]) <= f

\* a segment is stored whose first point is the last sample of the run of
\* another type before it, and one whose first point has no type of its own
C18_Witness ==
    /\ \E k \in 1 .. Len(constraintSegments) :
           shownType(sampleOf(constraintSegments[k][1])) \notin {constraintSegments[k][1].type, "null"}
    /\ \E k \in 1 .. Len(constraintSegments) :
           shownType(sampleOf(constraintSegments[k][1])) = "null"

\* the samples of the shown profile that are a run of their own: classified,
\* with a neighbour of another type or of none, or no neighbour, on each side
singleRuns ==
    { i \in 1 .. Len(shownProfile) :
        /\ shownType(i) # "null"
        /\ i = 1 \/ shownType(i - 1) # shownType(i)
        /\ i = Len(shownProfile) \/ shownType(i + 1) # shownType(i) }

\* the stored segments that hold sample i as a point of its own type
segmentsOfSample(i) ==
    { k \in 1 .. Len(constraintSegments) :
        \E j \in 1 .. Len(constraintSegments[k]) :
            /\ constraintSegments[k][j].distance = shownProfile[i].distance
            /\ constraintSegments[k][j].type = shownType(i) }

\* C19 as stated: a run of a single sample is dropped at any position of the
\* profile: no stored segment holds the sample under its type.
C19_SingleRunDropped ==
    terrainProfile # None => \A i \in singleRuns : segmentsOfSample(i) = {}

\* C19: a run of a single sample is dropped only at the first sample of the
\* profile; at any later position it is stored as a segment of two points,
\* the sample before it under the type of the run and the sample itself.
C19_SingleRunDroppedAtStart ==
    terrainProfile # None =>
        \A i \in singleRuns :
            IF i = 1 THEN segmentsOfSample(i) = {}
            ELSE \E k \in 1 .. Len(constraintSegments) :
                     LET seg == constraintSegments[k]
                     IN  /\ segmentsOfSample(i) = {k}
                         /\ Len(seg) = 2
                         /\ seg[1].distance = shownProfile[i - 1].distance
                         /\ seg[1].value = shownClearance(i - 1)
                         /\ seg[1].type = shownType(i)
                         /\ seg[2].distance = shownProfile[i].distance
                         /\ seg[2].value = shownClearance(i)
                         /\ seg[2].type = shownType(i)

\* a profile with a run of one sample at its start and another further on
C19_Witness ==
    /\ terrainProfile # None
    /\ 1 \in singleRuns
    /\ \E i \in singleRuns : i > 1

\* the type whose popup title is shown
typeOfTitle(title) ==
    CASE title = "Path Severely Obstructed" -> "severe_obstruction"
      [] title = "Path Obstructed" -> "obstruction"
      [] title = "Tight Clearance" -> "clearance"
      [] OTHER -> "null"

\* C20: every point of every stored segment has the type of the band its own
\* value lies in (severe_obstruction below -10, obstruction from -10 to below
\* 0, clearance from 0 to below 10), and the minimum that
\* getSegmentPopupInfo reports for a segment lies in the band of the
\* segment's type.
C20_PointTypeMatchesValue ==
    \A k \in 1 .. Len(constraintSegments) :
        LET seg == constraintSegments[k]
            info == getSegmentPopupInfo(seg)
        IN  /\ \A j \in 1 .. Len(seg) : seg[j].type = bandOf(seg[j].value)
            /\ bandOf(info.minVal) = seg[1].type
            /\ typeOfTitle(info.title) = seg[1].type

\* the stored segments of type obstruction or severe_obstruction
blockedSegments ==
    { k \in 1 .. Len(constraintSegments) :
        constraintSegments[k][1].type \in {"obstruction", "severe_obstruction"} }

\* the shown profile runs from distance 0 to a total distance above 0
shownFullPath ==
    /\ Greater(shownTotal, Zero)
    /\ shownProfile[1].distance = Zero
    /\ shownProfile[Len(shownProfile)].distance = shownTotal

\* C21: for a profile from distance 0 to totalDistance > 0 the LOS result is
\* obstructed exactly when a segment of type obstruction or
\* severe_obstruction is stored, and the reported obstruction distance lies
\* within such a segment.
C21_LosAgreesWithSegments ==
    (losResult # None /\ shownFullPath) =>
        /\ ~losResult[1].isClear <=> blockedSegments # {}
        /\ ~losResult[1].isClear =>
               \E k \in blockedSegments :
                   LET seg == constraintSegments[k]
                   IN  /\ LessEq(seg[1].distance, losResult[1].obstruction.distance)
                       /\ LessEq(losResult[1].obstruction.distance, seg[Len(seg)].distance)

\* an obstructed result over a full path of level terrain: the obstruction
\* is the bulge of the earth
C21_Witness ==
    /\ losResult # None
    /\ shownFullPath
    /\ ~losResult[1].isClear
    /\ useCurvature
    /\ \A i \in 1 .. Len(shownProfile) : shownProfile[i].elevation = shownProfile[1].elevation

\* C22: a change of an antenna height or of the curvature option while a
\* result is shown recomputes the result or clears it: after the step
\* losResult is null, or losResult and constraintSegments are what the
\* engine yields for the shown profile under the new heights and option.
C22_ChangeRecomputes ==
    [][ ( /\ losResult # None /\ terrainProfile # None
          /\ points[1] # None /\ points[2] # None
          /\ (antennaHeights' # antennaHeights \/ useCurvature' # useCurvature) ) =>
            \/ losResult' = None
            \/ /\ losResult' = Some(calculateLineOfSight(shownProfile, shownTotal,
                                        antennaHeights'[1], antennaHeights'[2], useCurvature'))
               /\ constraintSegments' = segmentProfile(shownProfile, shownTotal,
                                            antennaHeights'[1], antennaHeights'[2],
                                            useCurvature', points) ]_vars

\* the distances of the shown profile are strictly increasing
shownIncreasing ==
    \A i \in 1 .. Len(shownProfile) - 1 :
        Less(shownProfile[i].distance, shownProfile[i + 1].distance)

\* C23: for a profile with strictly increasing distances the points of each
\* stored segment have strictly increasing distances, the start distances
\* of successive segments are strictly increasing, and the chart's sort by
\* start distance leaves the order of the segments as it is.
C23_ScanOrder ==
    (terrainProfile # None /\ shownIncreasing) =>
        /\ \A k \in 1 .. Len(constraintSegments) :
               \A j \in 1 .. Len(constraintSegments[k]) - 1 :
                   Less(constraintSegments[k][j].distance, constraintSegments[k][j + 1].distance)
        /\ \A k \in 1 .. Len(constraintSegments) - 1 :
               Less(startDistance(constraintSegments[k]), startDistance(constraintSegments[k + 1]))
        /\ sortedSegments(constraintSegments) = constraintSegments

\* three segments are stored for a profile with increasing distances
C23_Witness ==
    /\ terrainProfile # None
    /\ shownIncreasing
    /\ Len(constraintSegments) >= 3

\* the colour bands the chart draws for the shown profile and segments
shownBands == colorSegments(constraintSegments, chartTotalDistance(shownProfile))

\* C24: when the chart's total distance is above 0 the colour bands tile the
\* path: the first starts at 0, the last ends at the total distance, each
\* starts where the one before ends, none has start > end, every stored
\* segment has its band, every other band is of type good, and with no
\* segment there is the single band [0, totalDistance] of type good.
C24_BandsTilePath ==
    (terrainProfile # None /\ Greater(chartTotalDistance(shownProfile), Zero)) =>
        LET total == chartTotalDistance(shownProfile)
            bands == shownBands
            ofSegments == { b \in 1 .. Len(bands) : bands[b].type # "good" }
        IN  /\ Len(bands) >= 1
            /\ bands[1].start = Zero
            /\ bands[Len(bands)].end = total
            /\ \A b \in 1 .. Len(bands) - 1 : bands[b + 1].start = bands[b].end
            /\ \A b \in 1 .. Len(bands) : LessEq(bands[b].start, bands[b].end)
            /\ Cardinality(ofSegments) = Len(constraintSegments)
            /\ \A k \in 1 .. Len(constraintSegments) :
                   \E b \in ofSegments :
                       LET seg == constraintSegments[k]
                       IN  bands[b] = [start |-> seg[1].distance,
                                       end |-> seg[Len(seg)].distance, type |-> seg[1].type]
            /\ constraintSegments = <<>> =>
                   bands = <<[start |-> Zero, end |-> total, type |-> "good"]>>

\* bands of type good before and behind the stored segments
C24_Witness ==
    /\ terrainProfile # None
    /\ Greater(chartTotalDistance(shownProfile), Zero)
    /\ Len(constraintSegments) >= 1
    /\ shownBands[1].type = "good"
    /\ shownBands[Len(shownBands)].type = "good"

\* C25: one analysis at most is under way and isLoading is true exactly
\* while it is; an analysis starts only with isLoading false and both points
\* set; an analysis that is under way comes to its end, and the step that
\* ends it sets isLoading to false and leaves an error or a LOS result; no
\* other step changes isLoading.
C25_LoadingWhileInFlight ==
    /\ [](isLoading <=> pending # None)
    /\ [][ /\ (pending = None /\ pending' # None) =>
                   (~isLoading /\ points[1] # None /\ points[2] # None /\ isLoading')
           /\ (pending # None /\ pending' = None) =>
                   (~isLoading' /\ (error' # None \/ losResult' # None))
           /\ (pending # None /\ pending' # None) => pending' = pending
           /\ isLoading' # isLoading => (pending' = None) # (pending = None) ]_vars
    /\ (isLoading ~> ~isLoading)

\* Reset, a marker drag or a map click has changed the points while an
\* analysis is under way
C25_Witness ==
    /\ isLoading
    /\ pending # None
    /\ pending[1].points # points

\* the points after a click on latlng, as the claim states them: A, then B,
\* then A again with B unset
statedClick(latlng) ==
    IF points[1] = None THEN <<Some(latlng), None>>
    ELSE IF points[2] = None THEN <<points[1], Some(latlng)>>
    ELSE <<Some(latlng), None>>

\* C26: while a LOS result is stored, a step that changes the points, the
\* profile, the results, the segments or the error is Reset, a marker drag
\* or a new Analyze, never a map click; with no result stored a click
\* selects A, then B, then A again with B unset; and B is never set while A
\* is unset.
C26_ClickFrame ==
    /\ [](points[1] = None => points[2] = None)
    /\ [][ /\ ( /\ losResult # None
                /\ <<points, terrainProfile, losResult, radioLinkResult, constraintSegments,
                     error>>' #
                   <<points, terrainProfile, losResult, radioLinkResult, constraintSegments,
                     error>> ) =>
                   \/ handleReset
                   \/ \E index \in {1, 2}, latlng \in LatLngs : handleMarkerDrag(index, latlng)
                   \/ handleAnalyze
           /\ \A latlng \in LatLngs :
                  handleMapClick(latlng) => (losResult = None /\ points' = statedClick(latlng))
         ]_vars

\* a result is shown between two selected points, where a click is ignored
C26_Witness ==
    /\ losResult # None
    /\ points[1] # None
    /\ points[2] # None
    /\ ~isLoading

\* positions of the antenna height sliders that the relations between two
\* evaluations are checked over
LosHeights == {9, 10}

\* C27: raising antennas never obstructs a path: for the shown profile over
\* a total distance above 0 and the shown curvature option, a path that is
\* clear for heights (a, b) is clear for all heights a2 >= a and b2 >= b.
C27_RaisingKeepsClear ==
    (terrainProfile # None /\ Greater(shownTotal, Zero)) =>
        \A a \in LosHeights, b \in LosHeights :
            calculateLineOfSight(shownProfile, shownTotal, a, b, useCurvature).isClear =>
                \A a2 \in { h \in LosHeights : h >= a }, b2 \in { h \in LosHeights : h >= b } :
                    calculateLineOfSight(shownProfile, shownTotal, a2, b2, useCurvature).isClear

\* a path over a total distance above 0 that is obstructed for heights 9 and
\* 9 and clear for heights 10 and 10
C27_Witness ==
    /\ terrainProfile # None
    /\ Greater(shownTotal, Zero)
    /\ ~calculateLineOfSight(shownProfile, shownTotal, 9, 9, useCurvature).isClear
    /\ calculateLineOfSight(shownProfile, shownTotal, 10, 10, useCurvature).isClear
    /\ antennaHeights = <<10, 10>>
    /\ losResult = Some([isClear |-> TRUE])

\* C28: enabling the curvature correction never clears a path: for the
\* shown profile and any antenna heights, a path that is obstructed with
\* curvature disabled is obstructed with curvature enabled, and the
\* obstruction reported with curvature enabled is no farther from the start
\* than the one reported with curvature disabled.
C28_CurvatureKeepsObstruction ==
    terrainProfile # None =>
        \A a \in LosHeights, b \in LosHeights :
            LET off == calculateLineOfSight(shownProfile, shownTotal, a, b, FALSE)
                on == calculateLineOfSight(shownProfile, shownTotal, a, b, TRUE)
            IN  ~off.isClear =>
                    /\ ~on.isClear
                    /\ LessEq(on.obstruction.distance, off.obstruction.distance)

\* a path whose obstruction with curvature enabled lies before the one
\* found with curvature disabled
C28_Witness ==
    /\ terrainProfile # None
    /\ \E a \in LosHeights, b \in LosHeights :
           LET off == calculateLineOfSight(shownProfile, shownTotal, a, b, FALSE)
               on == calculateLineOfSight(shownProfile, shownTotal, a, b, TRUE)
           IN  /\ ~off.isClear
               /\ ~on.isClear
               /\ Less(on.obstruction.distance, off.obstruction.distance)

\* C29: a profile fetched with sample count Steps over a total distance
\* above 0 has exactly Steps + 1 samples, the first at distance 0, the last
\* at the total distance, evenly spaced in between, however many results
\* the elevation service sent.
C29_FullProfile ==
    (terrainProfile # None /\ Greater(shownTotal, Zero)) =>
        /\ Len(shownProfile) = Steps + 1
        /\ shownProfile[1].distance = Zero
        /\ shownProfile[Len(shownProfile)].distance = shownTotal
        /\ \A i \in 1 .. Len(shownProfile) :
               shownProfile[i].distance = Mul(Div(Num(i - 1), Num(Steps)), shownTotal)

\* the radio specs of one side, and those of neither side
sideSpecs(specs, specKey) == <<specs[typeKey(specKey)], specs[gainKey(specKey)]>>

otherSpecs(specs) == <<specs.frequency, specs.txPower, specs.rxSensitivity>>

\* C30: after any sequence of antenna type selections and gain slider
\* changes, on either side an antenna type other than custom goes with the
\* preset gain of that type (omni 6, yagi 12, panel 16, dish 24); and a
\* change of the type or gain of one side leaves the type and gain of the
\* other side and the other radio specs as they were.
C30_PresetGains ==
    /\ [](\A specKey \in {"tx", "rx"} :
              radioSpecs[typeKey(specKey)] # "custom" =>
                  /\ radioSpecs[typeKey(specKey)] \in {"omni", "yagi", "panel", "dish"}
                  /\ radioSpecs[gainKey(specKey)] =
                         CASE radioSpecs[typeKey(specKey)] = "omni" -> 6
                           [] radioSpecs[typeKey(specKey)] = "yagi" -> 12
                           [] radioSpecs[typeKey(specKey)] = "panel" -> 16
                           [] radioSpecs[typeKey(specKey)] = "dish" -> 24)
    /\ [][ /\ sideSpecs(radioSpecs', "tx") # sideSpecs(radioSpecs, "tx") =>
                  /\ sideSpecs(radioSpecs', "rx") = sideSpecs(radioSpecs, "rx")
                  /\ otherSpecs(radioSpecs') = otherSpecs(radioSpecs)
           /\ sideSpecs(radioSpecs', "rx") # sideSpecs(radioSpecs, "rx") =>
                  /\ sideSpecs(radioSpecs', "tx") = sideSpecs(radioSpecs, "tx")
                  /\ otherSpecs(radioSpecs') = otherSpecs(radioSpecs) ]_vars

\* a preset type on one side, reached by the gain slider or the select, and
\* custom with the gain of a preset on the other
C30_Witness ==
    /\ sideSpecs(radioSpecs, "tx") = <<"dish", 24>>
    /\ sideSpecs(radioSpecs, "rx") = <<"custom", 6>>
    /\ radioSpecs.frequency = 2400

====
